---- MODULE Spec2Model ----
(***************************************************************************)
(* A model of the macOS storage scanner: the helpers of storage_utils.py   *)
(* (leaf_only, accumulate_root_totals, filetype_totals, the probes), the   *)
(* command line entry point mac_system_scanner.main and the window's scan  *)
(* orchestration ScannerGUI.on_run / ScannerGUI._run_scan.                 *)
(*                                                                         *)
(* A path is a sequence of one-character strings, so that prefixes,        *)
(* trailing separators, base names and suffixes are computed rather than   *)
(* assumed.  An entry is the tuple <<size_bytes, path>> of the source.     *)
(***************************************************************************)
EXTENDS Integers, Sequences, FiniteSets, TLC

VARIABLES
    \* ---- inputs and results of the helper functions applied on their own
    step,        \* which helper has been applied so far
    entries,     \* the list handed to leaf_only / to the threshold-sort-slice step
    min_size,    \* threshold of the threshold-sort-slice step (bytes)
    top_n,       \* slice bound of the threshold-sort-slice step
    out,         \* result of the first application
    out2,        \* result of the second application
    sampled,     \* the list handed to filetype_totals
    hist,        \* the Counter filetype_totals returns
    \* ---- a run of the scanner (command line or window)
    ui,          \* "cli": mac_system_scanner.main, "gui": ScannerGUI
    cfg,         \* the arguments / the values of the window's fields
    pc,          \* where main / the scan thread is
    root,        \* loop variable of the scan loop (<<>> before the first root)
    idx,         \* index in cfg.roots of the next root to scan
    pairs,       \* the local pairs after the per-root pipeline
    per_root_pairs,
    all_top_folders,
    all_top_files,
    sampled_for_types,
    lines,       \* the report lines gathered so far
    shown,       \* rows of the console table / of the window's tree
    report,      \* the report file: <<>> when not written, else <<lines>>
    printed,     \* the terminal: <<>> until console.print(table), then <<rows>>
    errors,      \* errors reported to the user by this invocation (CLI) /
                 \* since the last press of Run (GUI)
    probes,      \* the external commands run by this invocation / since the
                 \* last press of Run, <<tool, root>>
    root_totals, \* <<accumulate_root_totals(per_root_pairs)>>, <<>> before
    ext_totals,  \* <<filetype_totals(sampled_for_types)>>, <<>> before
    \* ---- the window (ScannerGUI)
    thread_alive,  \* self._scan_thread is set and is_alive()
    threads,       \* number of _run_scan threads that are alive
    busy,          \* set_busy: the Run button is disabled
    status,        \* text of the status label
    total_steps,   \* self._total_steps
    done_steps,    \* self._done_steps
    bar,           \* value of the progress bar (percent)
    poll_armed     \* _poll_thread is scheduled with self.after

fnVars == <<step, entries, min_size, top_n, out, out2, sampled, hist>>

scanVars == <<ui, cfg, pc, root, idx, pairs, per_root_pairs, all_top_folders,
              all_top_files, sampled_for_types, lines, shown, report, printed,
              errors, probes, root_totals, ext_totals,
              thread_alive, threads, busy, status, total_steps, done_steps,
              bar, poll_armed>>

vars == <<fnVars, scanVars>>

NONE == "none"

\* the scanner is not run while a helper function is applied on its own
ScanUnused ==
    /\ ui = NONE
    /\ cfg = NONE
    /\ pc = NONE
    /\ root = <<>>
    /\ idx = 0
    /\ pairs = <<>>
    /\ per_root_pairs = <<>>
    /\ all_top_folders = <<>>
    /\ all_top_files = <<>>
    /\ sampled_for_types = <<>>
    /\ lines = <<>>
    /\ shown = <<>>
    /\ report = <<>>
    /\ printed = <<>>
    /\ errors = <<>>
    /\ probes = <<>>
    /\ root_totals = <<>>
    /\ ext_totals = <<>>
    /\ thread_alive = FALSE
    /\ threads = 0
    /\ busy = FALSE
    /\ status = NONE
    /\ total_steps = 1
    /\ done_steps = 0
    /\ bar = 0
    /\ poll_armed = FALSE

\* ------------------------------------------------------------------ bounds

\* longest entry list handed to leaf_only and to the threshold-sort-slice step
MaxEntries == 3

\* largest top-N tried
MaxTop == 3

\* longest list of roots handed to a scan
MaxRoots == 2

\* ------------------------------------------------------------- sequences

SEP == "/"

Range(s) == {s[i] : i \in 1..Len(s)}

SeqsUpTo(S, n) == UNION {[1..k -> S] : k \in 0..n}

\* str.startswith
StartsWith(s, prefix) ==
    /\ Len(prefix) <= Len(s)
    /\ \A i \in 1..Len(prefix) : s[i] = prefix[i]

\* str.rstrip("/")
RECURSIVE RStripSep(_)
RStripSep(p) ==
    IF Len(p) > 0 /\ p[Len(p)] = SEP
    THEN RStripSep(SubSeq(p, 1, Len(p) - 1))
    ELSE p

\* sorted(s, key=..., reverse=True): Python's sort is stable, and with
\* reverse=True elements of equal key keep their original relative order.
\* keys[i] is the key of s[i].
StableSortDesc(s, keys) ==
    LET n == Len(s)
        Pos(i) == 1 + Cardinality({j \in 1..n :
                        \/ keys[j] > keys[i]
                        \/ keys[j] = keys[i] /\ j < i})
    IN  [k \in 1..n |-> s[CHOOSE i \in 1..n : Pos(i) = k]]

\* the same sort without reverse=True (ascending, stable)
StableSortAsc(s, keys) ==
    LET n == Len(s)
        Pos(i) == 1 + Cardinality({j \in 1..n :
                        \/ keys[j] < keys[i]
                        \/ keys[j] = keys[i] /\ j < i})
    IN  [k \in 1..n |-> s[CHOOSE i \in 1..n : Pos(i) = k]]

\* ---------------------------------------------------------------- leaf_only

ByLenAsc(es) == StableSortAsc(es, [i \in 1..Len(es) |-> Len(es[i][2])])

\* sorted(entries, key=lambda x: len(x[1]), reverse=True)
ByLenDesc(es) == StableSortDesc(es, [i \in 1..Len(es) |-> Len(es[i][2])])

BySizeAsc(es) == StableSortAsc(es, [i \in 1..Len(es) |-> es[i][1]])

\* sorted(pairs, key=lambda x: x[0], reverse=True)
BySizeDesc(es) == StableSortDesc(es, [i \in 1..Len(es) |-> es[i][1]])

\* any(kp.startswith(path.rstrip("/") + "/") for _, kp in keep)
IsParentOfKept(path, keep) ==
    \E k \in 1..Len(keep) : StartsWith(keep[k][2], RStripSep(path) \o <<SEP>>)

\* the for loop of leaf_only over the length-sorted list, from index i
RECURSIVE KeepLoop(_, _, _)
KeepLoop(sorted, i, keep) ==
    IF i > Len(sorted) THEN keep
    ELSE KeepLoop(sorted, i + 1,
                  IF IsParentOfKept(sorted[i][2], keep)
                  THEN keep
                  ELSE Append(keep, sorted[i]))

leaf_only(es) == BySizeDesc(KeepLoop(ByLenDesc(es), 1, <<>>))

\* -------------------------------------------------- inputs of leaf_only

\* Paths that exercise the prefix test: a root, parents and children,
\* siblings sharing a string prefix, trailing separators.
LeafPaths ==
    { <<"/", "a">>,
      <<"/", "a", "/">>,
      <<"/", "a", "/", "/">>,
      <<"/", "a", "/", "b">>,
      <<"/", "a", "b">>,
      <<"/", "a", "/", "b", "/", "c">>,
      <<"/", "b">> }

LeafSizes == {1, 2}

LeafInputs == SeqsUpTo(LeafSizes \X LeafPaths, MaxEntries)

InitLeaf ==
    /\ step = "input"
    /\ entries \in LeafInputs
    /\ min_size = 0
    /\ top_n = 0
    /\ out = <<>>
    /\ out2 = <<>>
    /\ sampled = <<>>
    /\ hist = <<>>
    /\ ScanUnused

\* leaf_only(entries)
LeafReduce ==
    /\ step = "input"
    /\ out' = leaf_only(entries)
    /\ step' = "reduced"
    /\ UNCHANGED <<entries, min_size, top_n, out2, sampled, hist, scanVars>>

\* leaf_only(leaf_only(entries))
LeafReduceAgain ==
    /\ step = "reduced"
    /\ out2' = leaf_only(out)
    /\ step' = "again"
    /\ UNCHANGED <<entries, min_size, top_n, out, sampled, hist, scanVars>>

NextLeaf == LeafReduce \/ LeafReduceAgain

SpecLeaf == InitLeaf /\ [][NextLeaf]_vars

\* ------------------------------------------------- claims about leaf_only

\* p is a filesystem ancestor of q: a proper prefix of q that ends exactly
\* at a path-separator boundary
IsAncestor(p, q) ==
    /\ Len(p) < Len(q)
    /\ StartsWith(q, p)
    /\ (p[Len(p)] = SEP \/ q[Len(p) + 1] = SEP)

\* a is a subsequence of b (the elements of a occur in b in the same order)
RECURSIVE IsSubseq(_, _)
IsSubseq(a, b) ==
    IF a = <<>> THEN TRUE
    ELSE IF b = <<>> THEN FALSE
    ELSE IF Head(a) = Head(b) THEN IsSubseq(Tail(a), Tail(b))
    ELSE IsSubseq(a, Tail(b))

SizeDescending(es) == \A i, j \in 1..Len(es) : i < j => es[i][1] >= es[j][1]

\* C1: the result of leaf_only holds no two entries one of whose paths is a
\* filesystem ancestor (proper prefix at a separator boundary) of the other's.
C1_NoAncestorPair ==
    step \in {"reduced", "again"} =>
        /\ \A i, j \in 1..Len(out) : ~IsAncestor(out[i][2], out[j][2])
        /\ \A i, j \in 1..Len(out2) : ~IsAncestor(out2[i][2], out2[j][2])

\* a parent and its child were both in the input and the parent was dropped
C1_Witness ==
    /\ step = "reduced"
    /\ \E i, j \in 1..Len(entries) : IsAncestor(entries[i][2], entries[j][2])
    /\ Len(out) >= 2
    /\ Len(out) < Len(entries)

\* C2: leaf_only is idempotent: leaf_only(leaf_only(x)) = leaf_only(x) as a
\* sequence.
C2_Idempotent == step = "again" => out2 = out

\* C8 (as stated): the result is ordered by descending size, and entries of
\* equal size appear in the order in which they occurred in the input.
C8_TiesInInputOrder ==
    step \in {"reduced", "again"} =>
        /\ SizeDescending(out)
        /\ \A s \in LeafSizes :
              LET OfSize(e) == e[1] = s
              IN  IsSubseq(SelectSeq(out, OfSize), SelectSeq(entries, OfSize))

\* C8 (amended): the result is ordered by descending size; entries of equal
\* size appear in order of descending path length, and entries of equal size
\* and equal path length appear in the order in which they occurred in the
\* input.
C8_TiesByLengthThenInput ==
    step \in {"reduced", "again"} =>
        /\ SizeDescending(out)
        /\ \A i, j \in 1..Len(out) :
              (i < j /\ out[i][1] = out[j][1]) => Len(out[i][2]) >= Len(out[j][2])
        /\ \A s \in LeafSizes : \A l \in {Len(p) : p \in LeafPaths} :
              LET Same(e) == e[1] = s /\ Len(e[2]) = l
              IN  IsSubseq(SelectSeq(out, Same), SelectSeq(entries, Same))

\* two kept entries of equal size whose order in the result is the reverse of
\* their order in the input, and two of equal size and length
C8_Witness ==
    /\ step = "reduced"
    /\ Len(entries) = 3
    /\ Len(out) = 3
    /\ out[1][1] = out[2][1]
    /\ out[1] = entries[2]
    /\ out[2] = entries[1]
    /\ \E i, j \in 1..3 : i < j /\ out[i] # out[j] /\ out[i][1] = out[j][1]
                           /\ Len(out[i][2]) = Len(out[j][2])

\* ------------------------------------- threshold, sort, slice (RankFilter)

MeetsMinStrict(size_bytes, min_bytes) == size_bytes > min_bytes

MeetsMinInverted(size_bytes, min_bytes) == size_bytes <= min_bytes

\* human_gb(p[0]) >= min_gb, both sides scaled by 2^30: human_gb divides by a
\* power of two, which is exact, so the test is the comparison of the byte
\* count with the threshold expressed in bytes.
MeetsMin(size_bytes, min_bytes) == size_bytes >= min_bytes

\* [p for p in pairs if human_gb(p[0]) >= min_gb]
Threshold(ps, min_bytes) ==
    LET Keep(p) == MeetsMin(p[1], min_bytes)
    IN  SelectSeq(ps, Keep)

\* Python's s[:top]: the first top elements; for top < 0 all but the last -top
TopSlice(s, top) ==
    IF top >= 0
    THEN SubSeq(s, 1, IF top < Len(s) THEN top ELSE Len(s))
    ELSE SubSeq(s, 1, IF Len(s) + top > 0 THEN Len(s) + top ELSE 0)

\* the pipeline with the leaf reduction moved before the threshold
top_folders_leaf_first(ps, min_bytes, leaf, top) ==
    LET red  == IF leaf THEN leaf_only(ps) ELSE ps
        kept == Threshold(red, min_bytes)
    IN  TopSlice(BySizeDesc(kept), top)

\* the per-root pipeline of main / _run_scan:
\*   pairs = [p for p in pairs if human_gb(p[0]) >= min_gb]
\*   if leaf: pairs = leaf_only(pairs)
\*   pairs = sorted(pairs, key=lambda x: x[0], reverse=True)[:top]
top_folders(ps, min_bytes, leaf, top) ==
    LET kept == Threshold(ps, min_bytes)
        red  == IF leaf THEN leaf_only(kept) ELSE kept
    IN  TopSlice(BySizeDesc(red), top)

\* the pipeline without leaf reduction: threshold, sort, slice
RankFilter(ps, min_bytes, top) == top_folders(ps, min_bytes, FALSE, top)

RankPaths == { <<"/", "p">>, <<"/", "q">> }

RankSizes == {1, 2, 3}

RankMins == {0, 1, 2, 3, 4}

InitRank ==
    /\ step = "input"
    /\ entries \in SeqsUpTo(RankSizes \X RankPaths, MaxEntries)
    /\ min_size \in RankMins
    /\ top_n \in 1..MaxTop
    /\ out = <<>>
    /\ out2 = <<>>
    /\ sampled = <<>>
    /\ hist = <<>>
    /\ ScanUnused

\* filter(entries, minSize, topN)
RankApply ==
    /\ step = "input"
    /\ out' = RankFilter(entries, min_size, top_n)
    /\ step' = "ranked"
    /\ UNCHANGED <<entries, min_size, top_n, out2, sampled, hist, scanVars>>

\* the same entries under a higher floor (hi), and under the original floor
\* with a top-N no smaller than the number of entries (lo)
RankRaise ==
    /\ step = "ranked"
    /\ \E m2 \in RankMins : \E t \in Len(entries)..(Len(entries) + 1) :
          /\ m2 > min_size
          /\ t >= 1
          /\ out2' = [floor |-> m2,
                      lo |-> RankFilter(entries, min_size, t),
                      hi |-> RankFilter(entries, m2, top_n)]
    /\ step' = "raised"
    /\ UNCHANGED <<entries, min_size, top_n, out, sampled, hist, scanVars>>

NextRank == RankApply \/ RankRaise

SpecRank == InitRank /\ [][NextRank]_vars

\* number of positions of s holding e
Count(s, e) == Cardinality({i \in 1..Len(s) : s[i] = e})

\* C4: the threshold-sort-truncate step returns at most topN entries, each of
\* size >= minSize, and they are the topN largest qualifying entries: the
\* result is drawn from the qualifying entries, is as long as topN and their
\* number allow, and no qualifying entry left out is larger than an entry of
\* the result.
C4_TopNLargest ==
    step = "ranked" =>
        LET qualifying == {i \in 1..Len(entries) : entries[i][1] >= min_size}
        IN  /\ Len(out) <= top_n
            /\ \A k \in 1..Len(out) : out[k][1] >= min_size
            /\ \A k \in 1..Len(out) : Count(out, out[k]) <= Count(entries, out[k])
            /\ Len(out) = IF Cardinality(qualifying) < top_n
                          THEN Cardinality(qualifying) ELSE top_n
            /\ SizeDescending(out)
            /\ \A i \in qualifying :
                  Count(out, entries[i]) < Count(entries, entries[i]) =>
                      \A k \in 1..Len(out) : entries[i][1] <= out[k][1]

\* the threshold dropped an entry, the slice cut a qualifying one, and an
\* entry of exactly the minimum size was returned
C4_Witness ==
    /\ step = "ranked"
    /\ Len(out) = top_n
    /\ \E i \in 1..Len(entries) : entries[i][1] < min_size
    /\ \E i \in 1..Len(entries) :
          entries[i][1] >= min_size /\ Count(out, entries[i]) = 0
    /\ \E k \in 1..Len(out) : out[k][1] = min_size

\* C5: threshold monotonicity: for minSize1 < minSize2, the entries returned
\* under minSize2 are among those returned under minSize1 with a top-N at
\* least the number of entries.
C5_ThresholdMonotone ==
    step = "raised" => Range(out2.hi) \subseteq Range(out2.lo)

\* the higher floor returned something and excluded something the lower kept
C5_Witness ==
    /\ step = "raised"
    /\ out2.floor > min_size
    /\ out2.hi # <<>>
    /\ Range(out2.lo) \ Range(out2.hi) # {}
    /\ Len(out2.hi) < Len(entries)

\* ------------------------------------------------------- filetype_totals

DOT == "."

\* the bucket of files without extension, "(no-ext)"
NO_EXT == <<"(", "n", "o", "-", "e", "x", "t", ")">>

\* str.lower on one character (the upper-case letters of the modelled names)
LowerChar(c) ==
    CASE c = "P" -> "p"
      [] c = "G" -> "g"
      [] OTHER -> c

\* str.lower
Lower(str) == [i \in 1..Len(str) |-> LowerChar(str[i])]

\* the components of a path as pathlib parses it: split at "/", empty
\* components and "." components dropped
RECURSIVE PathParts(_, _, _)
PathParts(p, i, cur) ==
    LET done == IF cur = <<>> \/ cur = <<DOT>> THEN <<>> ELSE <<cur>>
    IN  IF i > Len(p) THEN done
        ELSE IF p[i] = SEP THEN done \o PathParts(p, i + 1, <<>>)
        ELSE PathParts(p, i + 1, Append(cur, p[i]))

\* Path(p).name: the final component, "" when there is none
PathName(p) ==
    LET parts == PathParts(p, 1, <<>>)
    IN  IF parts = <<>> THEN <<>> ELSE parts[Len(parts)]

\* name.rfind("."), 0-based, -1 when there is no "."
RFindDot(name) ==
    LET dots == {i \in 1..Len(name) : name[i] = DOT}
    IN  IF dots = {} THEN -1
        ELSE (CHOOSE i \in dots : \A j \in dots : j <= i) - 1

\* Path(p).suffix: name[i:] when 0 < i < len(name) - 1 for i = name.rfind("."),
\* else ""
PathSuffix(p) ==
    LET name == PathName(p)
        i    == RFindDot(name)
    IN  IF 0 < i /\ i < Len(name) - 1
        THEN SubSeq(name, i + 1, Len(name))
        ELSE <<>>

\* ext = Path(p).suffix.lower(); if not ext: ext = "(no-ext)"
ExtOf(p) ==
    LET ext == Lower(PathSuffix(p))
    IN  IF ext = <<>> THEN NO_EXT ELSE ext

CounterSet(c, k, v) == [x \in DOMAIN c \cup {k} |-> IF x = k THEN v ELSE c[x]]

\* c[k] += v on a Counter: a missing key counts as 0
CounterAdd(c, k, v) ==
    [x \in DOMAIN c \cup {k} |->
        IF x = k THEN (IF k \in DOMAIN c THEN c[k] ELSE 0) + v ELSE c[x]]

\* the for loop of filetype_totals, from index i
RECURSIVE TypeLoop(_, _, _)
TypeLoop(files, i, c) ==
    IF i > Len(files) THEN c
    ELSE TypeLoop(files, i + 1, CounterAdd(c, ExtOf(files[i][2]), files[i][1]))

\* Counter(): no keys
EmptyCounter == [x \in {} |-> 0]

filetype_totals(sampled_files) == TypeLoop(sampled_files, 1, EmptyCounter)

\* File paths as find prints them: upper-case and multiple suffixes, no
\* extension, a leading dot, a dot in a directory name only.  Base names that
\* end in "." or begin with ".." are left out: pathlib's suffix differs
\* between Python versions on them.
FilePaths ==
    { <<"/", "x", "/", "r", ".", "P">>,
      <<"/", "y", "/", "r", ".", "p">>,
      <<"/", "y", "/", "a", ".", "t", ".", "G">>,
      <<"/", "z", "/", "n">>,
      <<"/", "z", "/", ".", "r">>,
      <<"/", "z", "/", ".", "a", ".", "g">>,
      <<"/", "x", ".", "d", "/", "n">> }

FileSizes == {1, 2}

InitTypes ==
    /\ step = "input"
    /\ entries = <<>>
    /\ min_size = 0
    /\ top_n = 0
    /\ out = <<>>
    /\ out2 = <<>>
    /\ sampled \in SeqsUpTo(FileSizes \X FilePaths, MaxEntries)
    /\ hist = EmptyCounter
    /\ ScanUnused

\* filetype_totals(sampled)
Classify ==
    /\ step = "input"
    /\ hist' = filetype_totals(sampled)
    /\ step' = "classified"
    /\ UNCHANGED <<entries, min_size, top_n, out, out2, sampled, scanVars>>

\* the caller reads the histogram (labels and values of the pie chart)
ReadHistogram ==
    /\ step = "classified"
    /\ out' = [k \in DOMAIN hist |-> hist[k]]
    /\ step' = "read"
    /\ UNCHANGED <<entries, min_size, top_n, out2, sampled, hist, scanVars>>

NextTypes == Classify \/ ReadHistogram

SpecTypes == InitTypes /\ [][NextTypes]_vars

\* the base name: what follows the last separator
BaseName(p) ==
    LET seps == {i \in 1..Len(p) : p[i] = SEP}
        last == IF seps = {} THEN 0 ELSE CHOOSE i \in seps : \A j \in seps : j <= i
    IN  SubSeq(p, last + 1, Len(p))

\* position of the final "." of a name, 0 when it has none
FinalDot(name) ==
    IF \E i \in 1..Len(name) : name[i] = DOT
    THEN CHOOSE i \in 1..Len(name) :
            name[i] = DOT /\ \A j \in (i + 1)..Len(name) : name[j] # DOT
    ELSE 0

\* the lowercased substring of the base name from its final "." onward
FromFinalDot(p) ==
    LET name == BaseName(p)
    IN  [i \in 1..(Len(name) - FinalDot(name) + 1) |->
            LowerChar(name[FinalDot(name) + i - 1])]

RECURSIVE SumSizes(_)
SumSizes(es) == IF es = <<>> THEN 0 ELSE Head(es)[1] + SumSizes(Tail(es))

\* hist has one bucket per Bucket(path) of the sampled files, holding the
\* sum of the sizes of the files of that bucket
IsHistogramBy(Bucket(_)) ==
    /\ DOMAIN hist = {Bucket(sampled[i][2]) : i \in 1..Len(sampled)}
    /\ \A k \in DOMAIN hist :
          LET InBucket(e) == Bucket(e[2]) = k
          IN  hist[k] = SumSizes(SelectSeq(sampled, InBucket))

\* C7 (as stated): every file goes to the bucket named by the lowercased
\* substring of its base name from the final "." onward, or to "(no-ext)"
\* when the base name has no ".", and each bucket holds the sum of the sizes
\* of its files.
C7_BucketFromFinalDot ==
    LET Bucket(p) == IF FinalDot(BaseName(p)) = 0 THEN NO_EXT ELSE FromFinalDot(p)
    IN  step \in {"classified", "read"} => IsHistogramBy(Bucket)

\* C7 (amended): every file whose base name neither ends in "." nor begins
\* with ".." goes to the bucket named by the lowercased substring of its base
\* name from the final "." onward when that "." is not the first character of
\* the base name, and to "(no-ext)" otherwise (no ".", or only a leading one,
\* as in .bashrc); each bucket holds the sum of the sizes of its files.
C7_BucketFromInnerDot ==
    LET Bucket(p) == IF FinalDot(BaseName(p)) <= 1 THEN NO_EXT ELSE FromFinalDot(p)
    IN  step \in {"classified", "read"} => IsHistogramBy(Bucket)

\* report.PDF and report.pdf summed into .p, archive.tar.gz in .g, and a
\* file without extension
C7_Witness ==
    /\ step = "classified"
    /\ Len(sampled) = 3
    /\ DOMAIN hist = {<<DOT, "p">>, NO_EXT}
    /\ hist[<<DOT, "p">>] = 3
    /\ \E i \in 1..3 : sampled[i][2] = <<"/", "x", "/", "r", ".", "P">>
    /\ \E i \in 1..3 : sampled[i][2] = <<"/", "y", "/", "r", ".", "p">>

\* ------------------------------------------------ the disk and the probes

\* du -k reports KiB; du_list converts to bytes
KIB == 1024

\* stat is run on groups of at most this many paths
CHUNK == 200

ROOT_R == <<"/", "r">>
ROOT_S == <<"/", "s">>
ROOT_M == <<"/", "m">>

\* the roots a scan may be asked for; ROOT_M does not exist
RootNames == {ROOT_R, ROOT_S, ROOT_M}

\* stdout of du -kxdN r, one tuple per line: <<"row", kib, path>> for
\* "kib TAB path", <<"nan", path>> for a first field that is no integer,
\* <<"junk">> for a line without TAB.  du of a missing directory prints
\* nothing on stdout (stderr is discarded by run).
DuStdout(r) ==
    IF r = ROOT_R THEN
        << <<"row", 3, r \o <<"/", "a", "/", "b">> >>,
           <<"row", 1, r \o <<"/", "a", "/", "c">> >>,
           <<"row", 4, r \o <<"/", "a">> >>,
           <<"junk">>,
           <<"row", 5, r>> >>
    ELSE IF r = ROOT_S THEN
        << <<"row", 2, r \o <<"/", "x">> >>,
           <<"nan", r \o <<"/", "y">> >>,
           <<"row", 2, r>> >>
    ELSE <<>>

\* find's units: -size +nG counts in GiB, -size +nM in MiB
GIB == 1073741824

MIB == 1048576

\* A number handed to a helper: its whole value and whether it is a Python
\* float (argparse type=float, float(...) of the window's field) or an int.
IntNum(n) == [n |-> n, float |-> FALSE]

FloatNum(n) == [n |-> n, float |-> TRUE]

Digits == <<"0", "1", "2", "3", "4", "5", "6", "7", "8", "9">>

RECURSIVE DigitsOf(_)
DigitsOf(n) ==
    IF n < 10 THEN <<Digits[n + 1]>>
    ELSE DigitsOf(n \div 10) \o <<Digits[(n % 10) + 1]>>

\* the text an f-string gives a number: the digits of an int, and for a
\* float always a decimal point as well ("1.0")
FormatNum(x) ==
    IF x.float THEN DigitsOf(x.n) \o <<DOT, "0">> ELSE DigitsOf(x.n)

\* f"+{min}G", f"+{min}M"
SizeArg(x, unit) == <<"+">> \o FormatNum(x) \o <<unit>>

\* length of the run of decimal digits of arg that starts at position i
RECURSIVE DigitRun(_, _)
DigitRun(arg, i) ==
    IF i <= Len(arg) /\ arg[i] \in Range(Digits)
    THEN 1 + DigitRun(arg, i + 1) ELSE 0

RECURSIVE DigitsValue(_, _, _)
DigitsValue(arg, i, n) ==
    IF n = 0 THEN 0
    ELSE DigitsValue(arg, i, n - 1) * 10
         + ((CHOOSE d \in 1..10 : Digits[d] = arg[i + n - 1]) - 1)

\* find's reading of the argument of -size: "+", an integer, one unit
\* letter.  <<bytes>> is the size a file has to exceed; <<>> when find
\* rejects the argument (it then prints nothing on stdout).
SizeFloor(arg) ==
    LET n == DigitRun(arg, 2)
    IN  IF n >= 1 /\ Len(arg) = n + 2 /\ arg[n + 2] \in {"G", "M"}
        THEN <<DigitsValue(arg, 2, n) * (IF arg[n + 2] = "G" THEN GIB ELSE MIB)>>
        ELSE <<>>

\* -size +n accepts the files larger than n units
Exceeds(size_bytes, floor_bytes) == size_bytes > floor_bytes

\* the regular files under r with their sizes, in the order find visits them
DiskFiles(r) ==
    IF r = ROOT_R THEN
        << <<7, r \o <<"/", "a", "/", "b", "/", "f", ".", "P">> >>,
           <<9, r \o <<"/", "a", "/", "g">> >> >>
    ELSE IF r = ROOT_S THEN
        << <<7, r \o <<"/", "x", "/", "h", ".", "p">> >> >>
    ELSE <<>>

\* stdout of find root -type f -size arg over the files disk, one path per
\* line, split into lines
FindStdout(disk, arg) ==
    LET floor == SizeFloor(arg)
        Printed(f) == Exceeds(f[1], floor[1])
        hits == IF floor = <<>> THEN <<>> ELSE SelectSeq(disk, Printed)
    IN  [k \in 1..Len(hits) |-> hits[k][2]]

\* stdout of stat -f "%z %N" group, parsed: one (size, name) per path
StatGroup(disk, group) ==
    [k \in 1..Len(group) |->
        LET f == CHOOSE e \in Range(disk) : e[2] = group[k]
        IN  <<f[1], group[k]>>]

\* du_list: the rows that parse, sizes converted from KiB to bytes
RECURSIVE DuRows(_, _)
DuRows(stdout, i) ==
    IF i > Len(stdout) THEN <<>>
    ELSE (IF stdout[i][1] = "row"
          THEN << <<stdout[i][2] * KIB, stdout[i][3]>> >>
          ELSE <<>>) \o DuRows(stdout, i + 1)

du_list(dir_path) == DuRows(DuStdout(dir_path), 1)

\* for i in range(0, len(files), chunk): stat files[i:i+chunk]
RECURSIVE StatChunks(_, _, _)
StatChunks(disk, files, i) ==
    IF i > Len(files) THEN <<>>
    ELSE LET last == IF i + CHUNK - 1 < Len(files) THEN i + CHUNK - 1 ELSE Len(files)
         IN  StatGroup(disk, SubSeq(files, i, last)) \o StatChunks(disk, files, i + CHUNK)

\* sample_files_for_types(root, min_mb) over the files disk of root
sample_files_for_types(disk, min_mb) ==
    StatChunks(disk, FindStdout(disk, SizeArg(min_mb, "M")), 1)

\* find_big_files(root, min_gb, top) over the files disk of root
find_big_files(disk, min_gb, top) ==
    TopSlice(BySizeDesc(StatChunks(disk, FindStdout(disk, SizeArg(min_gb, "G")), 1)), top)

\* the commands find_big_files / sample_files_for_types run: find, and stat
\* once per chunk when find printed something
FindProbes(r, arg) ==
    << <<"find", r>> >> \o
    [k \in 1..((Len(FindStdout(DiskFiles(r), arg)) + CHUNK - 1) \div CHUNK) |->
        <<"stat", r>>]

\* totals over the leaf-reduced entries of each root
accumulate_leaf_totals(prp) == [r \in DOMAIN prp |-> SumSizes(leaf_only(prp[r]))]

\* accumulate_root_totals(per_root_pairs)
accumulate_root_totals(prp) == [r \in DOMAIN prp |-> SumSizes(prp[r])]

ReplaceList(acc, xs) == xs

\* list.extend, and the append of each element in a for loop
ExtendList(acc, xs) == acc \o xs

\* per_root_pairs[root].extend(pairs) on a defaultdict(list)
DictExtend(prp, r, ps) ==
    [x \in DOMAIN prp \cup {r} |->
        IF x = r THEN ExtendList(IF r \in DOMAIN prp THEN prp[r] ELSE <<>>, ps)
        ELSE prp[x]]

\* per_root_pairs[root] = pairs[:] on a dict
DictAssign(prp, r, ps) ==
    [x \in DOMAIN prp \cup {r} |-> IF x = r THEN ps ELSE prp[x]]

EmptyDict == [x \in {} |-> <<>>]

\* ----------------------------------------------------- report and table

\* The report lines and table rows keep the size in bytes where the source
\* formats it as "%6.2f" GiB; the text of a line is not modelled.
FolderLines(ps) ==
    IF ps = <<>> THEN << <<"no_folders">> >>
    ELSE << <<"top_folders">> >> \o [k \in 1..Len(ps) |-> <<"row", ps[k][1], ps[k][2]>>]

FileLines(fs) ==
    IF fs = <<>> THEN << <<"no_files">> >>
    ELSE << <<"top_files">> >> \o [k \in 1..Len(fs) |-> <<"row", fs[k][1], fs[k][2]>>]

\* table.add_row / tree.insert values
Rows(ps, kind) == [k \in 1..Len(ps) |-> <<ps[k][1], ps[k][2], kind>>]

\* ------------------------------------------------------------ the inputs

\* The arguments of a run: roots (possibly none, possibly repeated), top
\* (argparse and the window accept any integer), the folder threshold in
\* bytes, the three switches, the file threshold (a float in both entry
\* points), the sampling threshold (an int) and whether the numeric fields
\* parse.
Configs ==
    [roots : SeqsUpTo(RootNames, MaxRoots),
     top : (-1)..MaxTop,
     min_b : {0, 2 * KIB, 4 * KIB},
     leaf : BOOLEAN, files : BOOLEAN, charts : BOOLEAN,
     min_file_gb : {FloatNum(1)}, filetype_min_mb : {IntNum(0)},
     numeric : {TRUE}]
    \cup
    [roots : {<<ROOT_R>>}, top : {MaxTop}, min_b : {0},
     leaf : {TRUE}, files : {TRUE}, charts : {FALSE},
     min_file_gb : {FloatNum(1)}, filetype_min_mb : {IntNum(0)},
     numeric : {FALSE}]

InitScan ==
    /\ step = NONE
    /\ entries = <<>>
    /\ min_size = 0
    /\ top_n = 0
    /\ out = <<>>
    /\ out2 = <<>>
    /\ sampled = <<>>
    /\ hist = <<>>
    /\ ui \in {"cli", "gui"}
    /\ cfg \in Configs
    /\ pc = "start"
    /\ root = <<>>
    /\ idx = 0
    /\ pairs = <<>>
    /\ per_root_pairs = EmptyDict
    /\ all_top_folders = <<>>
    /\ all_top_files = <<>>
    /\ sampled_for_types = <<>>
    /\ lines = <<>>
    /\ shown = <<>>
    /\ report = <<>>
    /\ printed = <<>>
    /\ errors = <<>>
    /\ probes = <<>>
    /\ root_totals = <<>>
    /\ ext_totals = <<>>
    /\ thread_alive = FALSE
    /\ threads = 0
    /\ busy = FALSE
    /\ status = "Ready"
    /\ total_steps = 0
    /\ done_steps = 0
    /\ bar = 0
    /\ poll_armed = FALSE

guiVars == <<thread_alive, threads, busy, status, total_steps, done_steps,
             bar, poll_armed>>

\* ------------------------------------------- mac_system_scanner.main (CLI)

\* ap.parse_args() on arguments that do not parse: argparse reports the
\* error and exits
CliBadArgs ==
    /\ ui = "cli" /\ pc = "start"
    /\ ~cfg.numeric
    /\ errors' = Append(errors, "argparse")
    /\ pc' = "exit"
    /\ UNCHANGED <<fnVars, ui, cfg, printed, root, idx, pairs, per_root_pairs,
                   all_top_folders, all_top_files, sampled_for_types, lines,
                   shown, report, probes, root_totals, ext_totals, guiVars>>

\* main up to the scan loop: parse_args, the table, the header lines
CliMain ==
    /\ ui = "cli" /\ pc = "start"
    /\ cfg.numeric
    /\ lines' = << <<"title">>, <<"roots">>, <<"settings">> >>
                \o (IF cfg.files THEN << <<"files_enabled">> >> ELSE <<>>)
                \o (IF cfg.charts THEN << <<"charts_enabled">> >> ELSE <<>>)
                \o << <<"blank">> >>
    /\ idx' = 1
    /\ pc' = "scan"
    /\ UNCHANGED <<fnVars, ui, cfg, printed, root, pairs, per_root_pairs,
                   all_top_folders, all_top_files, sampled_for_types,
                   shown, report, errors, probes, root_totals, ext_totals,
                   guiVars>>

\* one iteration of "for root in track(args.roots)"
CliScanRoot ==
    /\ ui = "cli" /\ pc = "scan"
    /\ idx <= Len(cfg.roots)
    /\ LET r   == cfg.roots[idx]
           raw == du_list(r)
           ps  == top_folders(raw, cfg.min_b, cfg.leaf, cfg.top)
           big == IF cfg.files THEN find_big_files(DiskFiles(r), cfg.min_file_gb, cfg.top) ELSE <<>>
       IN  /\ root' = r
           /\ per_root_pairs' = DictExtend(per_root_pairs, r, raw)
           /\ pairs' = ps
           /\ all_top_folders' = ExtendList(all_top_folders, ps)
           /\ all_top_files' = ExtendList(all_top_files, big)
           /\ sampled_for_types' =
                 IF cfg.charts
                 THEN ExtendList(sampled_for_types, sample_files_for_types(DiskFiles(r), cfg.filetype_min_mb))
                 ELSE sampled_for_types
           /\ lines' = lines \o << <<"root", r>> >> \o FolderLines(ps)
                       \o (IF cfg.files THEN FileLines(big) ELSE <<>>)
           /\ shown' = shown
                       \o (IF cfg.files
                           THEN Rows(ps, "folder")
                           ELSE [k \in 1..Len(ps) |-> <<ps[k][1], ps[k][2]>>])
                       \o Rows(big, "file")
           /\ probes' = probes \o << <<"du", r>> >>
                        \o (IF cfg.files
                            THEN FindProbes(r, SizeArg(cfg.min_file_gb, "G"))
                            ELSE <<>>)
                        \o (IF cfg.charts
                            THEN FindProbes(r, SizeArg(cfg.filetype_min_mb, "M"))
                            ELSE <<>>)
    /\ idx' = idx + 1
    /\ UNCHANGED <<fnVars, ui, cfg, printed, pc, report, errors, root_totals,
                   ext_totals, guiVars>>

\* report_path.write_text("\n".join(lines)) succeeds; console.print(table)
CliWriteReport ==
    /\ ui = "cli" /\ pc = "scan"
    /\ idx > Len(cfg.roots)
    /\ report' = <<lines>>
    /\ printed' = <<shown>>
    /\ pc' = "charts"
    /\ UNCHANGED <<fnVars, ui, cfg, root, idx, pairs, per_root_pairs,
                   all_top_folders, all_top_files, sampled_for_types, lines,
                   shown, errors, probes, root_totals, ext_totals, guiVars>>

\* report_path.write_text raises OSError (the destination is a directory,
\* is read-only, the disk is full): nothing in main catches it, so the
\* interpreter prints the traceback and exits before console.print(table)
\* and before the charts
CliWriteFails ==
    /\ ui = "cli" /\ pc = "scan"
    /\ idx > Len(cfg.roots)
    /\ errors' = Append(errors, "traceback")
    /\ pc' = "crashed"
    /\ UNCHANGED <<fnVars, ui, cfg, printed, root, idx, pairs, per_root_pairs,
                   all_top_folders, all_top_files, sampled_for_types, lines,
                   shown, report, probes, root_totals, ext_totals, guiVars>>

\* the charts, when enabled, and the closing tip
CliCharts ==
    /\ ui = "cli" /\ pc = "charts"
    /\ root_totals' = IF cfg.charts
                      THEN <<accumulate_root_totals(per_root_pairs)>>
                      ELSE root_totals
    /\ ext_totals' = IF cfg.charts /\ sampled_for_types # <<>>
                     THEN <<filetype_totals(sampled_for_types)>>
                     ELSE ext_totals
    /\ pc' = "done"
    /\ UNCHANGED <<fnVars, ui, cfg, printed, root, idx, pairs, per_root_pairs,
                   all_top_folders, all_top_files, sampled_for_types, lines,
                   shown, report, errors, probes, guiVars>>

NextCli ==
    \/ CliBadArgs \/ CliMain \/ CliScanRoot
    \/ CliWriteReport \/ CliWriteFails \/ CliCharts

\* ------------------------------------------------------ ScannerGUI (GUI)

\* The scan thread updates the widgets through self.after(0, ...); the model
\* runs such a callback at the point where it is posted.

\* a _progress_step that does not count
StepDoneStuck(done, total, steps) == done

\* _progress_step(steps): the new _done_steps
StepDone(done, total, steps) ==
    IF done + steps > total THEN total ELSE done + steps

\* int((self._done_steps / self._total_steps) * 100)
Percent(done, total) == (done * 100) \div total

\* if self._scan_thread and self._scan_thread.is_alive()
ScanRunningNever == FALSE

ScanRunning == thread_alive

\* on_run: the Run button, or the Return key
GuiOnRun ==
    /\ ui = "gui"
    /\ IF ScanRunning THEN
           \* if self._scan_thread and self._scan_thread.is_alive(): return
           UNCHANGED <<scanVars>>
       ELSE IF cfg.roots = <<>> THEN
           /\ errors' = <<"no_roots">>
           /\ UNCHANGED <<ui, cfg, printed, pc, root, idx, pairs, per_root_pairs,
                          all_top_folders, all_top_files, sampled_for_types,
                          lines, shown, report, probes, root_totals,
                          ext_totals, guiVars>>
       ELSE IF ~cfg.numeric THEN
           /\ errors' = <<"invalid_settings">>
           /\ UNCHANGED <<ui, cfg, printed, pc, root, idx, pairs, per_root_pairs,
                          all_top_folders, all_top_files, sampled_for_types,
                          lines, shown, report, probes, root_totals,
                          ext_totals, guiVars>>
       ELSE
           /\ shown' = <<>>
           /\ status' = "Scanning"
           /\ busy' = TRUE
           /\ total_steps' =
                 LET phases == 1 + (IF cfg.files THEN 1 ELSE 0)
                                 + (IF cfg.charts THEN 1 ELSE 0)
                     n == Len(cfg.roots) * phases
                 IN  IF n < 1 THEN 1 ELSE n
           /\ done_steps' = 0
           /\ thread_alive' = TRUE
           /\ threads' = threads + 1
           /\ poll_armed' = TRUE
           \* the locals of the new _run_scan
           /\ pc' = "scan"
           /\ idx' = 1
           /\ root' = <<>>
           /\ pairs' = <<>>
           /\ lines' = << <<"title">>, <<"roots">>, <<"settings">>,
                          <<"files">>, <<"charts">>, <<"blank">> >>
           /\ per_root_pairs' = EmptyDict
           /\ all_top_folders' = <<>>
           /\ all_top_files' = <<>>
           /\ sampled_for_types' = <<>>
           /\ root_totals' = <<>>
           /\ ext_totals' = <<>>
           /\ errors' = <<>>
           /\ probes' = <<>>
           /\ UNCHANGED <<ui, cfg, printed, report, bar>>
    /\ UNCHANGED fnVars

\* set_busy(False) of _poll_thread left out
BusyAfterPollKept(b) == b

\* self.set_busy(False): the Run button is enabled again
BusyAfterPoll(b) == FALSE

\* _poll_thread: while the thread is alive it schedules itself again
GuiPoll ==
    /\ ui = "gui"
    /\ poll_armed
    /\ IF ScanRunning
       THEN UNCHANGED <<busy, poll_armed>>
       ELSE /\ busy' = BusyAfterPoll(busy)
            /\ poll_armed' = FALSE
    /\ UNCHANGED <<fnVars, ui, cfg, printed, pc, root, idx, pairs, per_root_pairs,
                   all_top_folders, all_top_files, sampled_for_types, lines,
                   shown, report, errors, probes, root_totals, ext_totals,
                   thread_alive, threads, status, total_steps, done_steps, bar>>

\* _run_scan, phase 1 of a root: du, the per-root pipeline, the folder rows
GuiScanDu ==
    /\ ui = "gui" /\ thread_alive /\ pc = "scan"
    /\ idx <= Len(cfg.roots)
    /\ LET r   == cfg.roots[idx]
           raw == du_list(r)
           ps  == top_folders(raw, cfg.min_b, cfg.leaf, cfg.top)
       IN  /\ root' = r
           /\ per_root_pairs' = DictAssign(per_root_pairs, r, raw)
           /\ pairs' = ps
           /\ all_top_folders' = ExtendList(all_top_folders, ps)
           /\ lines' = lines \o << <<"root", r>> >> \o FolderLines(ps)
           /\ shown' = shown \o Rows(ps, "folder")
           /\ probes' = Append(probes, <<"du", r>>)
    /\ done_steps' = StepDone(done_steps, total_steps, 1)
    /\ bar' = Percent(done_steps', total_steps)
    /\ pc' = IF cfg.files THEN "files" ELSE IF cfg.charts THEN "types" ELSE "scan"
    /\ idx' = IF cfg.files \/ cfg.charts THEN idx ELSE idx + 1
    /\ UNCHANGED <<fnVars, ui, cfg, printed, all_top_files, sampled_for_types, report,
                   errors, root_totals, ext_totals, thread_alive, threads, busy,
                   status, total_steps, poll_armed>>

\* _run_scan, phase 2 of a root: the largest files
GuiScanFiles ==
    /\ ui = "gui" /\ thread_alive /\ pc = "files"
    /\ LET big == find_big_files(DiskFiles(root), cfg.min_file_gb, cfg.top)
       IN  /\ all_top_files' = ExtendList(all_top_files, big)
           /\ lines' = lines \o FileLines(big)
           /\ shown' = shown \o Rows(big, "file")
           /\ probes' = probes \o FindProbes(root, SizeArg(cfg.min_file_gb, "G"))
    /\ done_steps' = StepDone(done_steps, total_steps, 1)
    /\ bar' = Percent(done_steps', total_steps)
    /\ pc' = IF cfg.charts THEN "types" ELSE "scan"
    /\ idx' = IF cfg.charts THEN idx ELSE idx + 1
    /\ UNCHANGED <<fnVars, ui, cfg, printed, root, pairs, per_root_pairs,
                   all_top_folders, sampled_for_types, report, errors,
                   root_totals, ext_totals, thread_alive, threads, busy, status,
                   total_steps, poll_armed>>

\* _run_scan, phase 3 of a root: sampling for the file-type chart
GuiScanTypes ==
    /\ ui = "gui" /\ thread_alive /\ pc = "types"
    /\ sampled_for_types' = ExtendList(sampled_for_types, sample_files_for_types(DiskFiles(root), cfg.filetype_min_mb))
    /\ probes' = probes \o FindProbes(root, SizeArg(cfg.filetype_min_mb, "M"))
    /\ done_steps' = StepDone(done_steps, total_steps, 1)
    /\ bar' = Percent(done_steps', total_steps)
    /\ pc' = "scan"
    /\ idx' = idx + 1
    /\ UNCHANGED <<fnVars, ui, cfg, printed, root, pairs, per_root_pairs,
                   all_top_folders, all_top_files, lines, shown, report,
                   errors, root_totals, ext_totals, thread_alive, threads, busy,
                   status, total_steps, poll_armed>>

\* _run_scan after the loop: report_path.write_text raises; the except
\* clause sets the status and opens the error box, which keeps the thread
\* until it is dismissed; the charts and the "Done" status are skipped
GuiWriteFails ==
    /\ ui = "gui" /\ thread_alive /\ pc = "scan"
    /\ idx > Len(cfg.roots)
    /\ status' = "Error"
    /\ errors' = Append(errors, "write_failed")
    /\ pc' = "dialog"
    /\ UNCHANGED <<fnVars, ui, cfg, printed, root, idx, pairs, per_root_pairs,
                   all_top_folders, all_top_files, sampled_for_types, lines,
                   shown, report, probes, root_totals, ext_totals,
                   thread_alive, threads, busy, total_steps, done_steps, bar,
                   poll_armed>>

\* messagebox.showerror returns and _run_scan ends
GuiErrorDismissed ==
    /\ ui = "gui" /\ thread_alive /\ pc = "dialog"
    /\ pc' = "failed"
    /\ thread_alive' = FALSE
    /\ threads' = threads - 1
    /\ UNCHANGED <<fnVars, ui, cfg, printed, root, idx, pairs, per_root_pairs,
                   all_top_folders, all_top_files, sampled_for_types, lines,
                   shown, report, errors, probes, root_totals, ext_totals,
                   busy, status, total_steps, done_steps, bar, poll_armed>>

\* _run_scan after the loop: report_path.write_text("\n".join(lines))
GuiWriteReport ==
    /\ ui = "gui" /\ thread_alive /\ pc = "scan"
    /\ idx > Len(cfg.roots)
    /\ report' = <<lines>>
    /\ pc' = "charts"
    /\ UNCHANGED <<fnVars, ui, cfg, printed, root, idx, pairs, per_root_pairs,
                   all_top_folders, all_top_files, sampled_for_types, lines,
                   shown, errors, probes, root_totals, ext_totals, guiVars>>

\* _run_scan to its end: the charts when enabled, the status, the last
\* refresh of the progress; the thread ends
GuiCharts ==
    /\ ui = "gui" /\ thread_alive /\ pc = "charts"
    /\ root_totals' = IF cfg.charts
                      THEN <<accumulate_root_totals(per_root_pairs)>>
                      ELSE root_totals
    /\ ext_totals' = IF cfg.charts /\ sampled_for_types # <<>>
                     THEN <<filetype_totals(sampled_for_types)>>
                     ELSE ext_totals
    /\ status' = "Done"
    /\ done_steps' = StepDone(done_steps, total_steps, 0)
    /\ bar' = Percent(done_steps', total_steps)
    /\ pc' = "done"
    /\ thread_alive' = FALSE
    /\ threads' = threads - 1
    /\ UNCHANGED <<fnVars, ui, cfg, printed, root, idx, pairs, per_root_pairs,
                   all_top_folders, all_top_files, sampled_for_types, lines,
                   shown, report, errors, probes, busy, total_steps,
                   poll_armed>>

NextGui ==
    \/ GuiOnRun \/ GuiPoll
    \/ GuiScanDu \/ GuiScanFiles \/ GuiScanTypes \/ GuiWriteReport \/ GuiCharts
    \/ GuiWriteFails \/ GuiErrorDismissed

NextScan == NextCli \/ NextGui

SpecScan == InitScan /\ [][NextScan]_vars

\* -------------------------------------------------- claims about a scan

\* f lies under directory e: e's path without trailing separators, followed
\* by a separator, is a prefix of f's path
IsUnder(f, e) == StartsWith(f, RStripSep(e) \o <<SEP>>)

\* number of times r occurs in the list of roots
Occurrences(r) == Cardinality({k \in 1..Len(cfg.roots) : cfg.roots[k] = r})

\* C3 (as stated): with leaf-only enabled, the top-folders list of a root is
\* threshold, sort and top-N applied to the leaf reduction of the root's raw
\* entries (the threshold comes after the leaf reduction).
C3_ThresholdAfterLeaf ==
    (cfg.leaf /\ root # <<>>) =>
        pairs = RankFilter(leaf_only(du_list(root)), cfg.min_b, cfg.top)

\* C3 (amended): with leaf-only enabled, the top-folders list of a root is
\* the leaf reduction of the raw entries that meet the threshold, sorted and
\* cut to top-N; the threshold is applied before the leaf reduction, so a
\* directory is hidden only by an entry under it that itself meets the
\* threshold: every listed entry meets the threshold and has no qualifying
\* raw entry beneath it, and, when top-N does not cut, every qualifying raw
\* entry with no qualifying raw entry under it is listed, also when it has
\* reported descendants below the threshold.
C3_ThresholdBeforeLeaf ==
    (cfg.leaf /\ root # <<>>) =>
        LET raw == du_list(root)
            qual == {i \in 1..Len(raw) : raw[i][1] >= cfg.min_b}
        IN  /\ \A k \in 1..Len(pairs) :
                  /\ pairs[k] \in Range(raw)
                  /\ pairs[k][1] >= cfg.min_b
                  /\ \A i \in qual : ~IsAncestor(pairs[k][2], raw[i][2])
            /\ SizeDescending(pairs)
            /\ cfg.top >= Cardinality(qual) =>
                  \A i \in qual :
                      (\A j \in qual \ {i} : ~IsUnder(raw[j][2], raw[i][2]))
                          => raw[i] \in Range(pairs)

\* /r/a (4 KiB) is listed although /r/a/b and /r/a/c were reported, both
\* below the 4 KiB threshold
C3_Witness ==
    /\ cfg.leaf
    /\ root = ROOT_R
    /\ cfg.min_b = 4 * KIB
    /\ cfg.top >= 2
    /\ pairs = << <<4 * KIB, ROOT_R \o <<"/", "a">> >> >>

C9_ConfigErrorBeforeProbes ==
    (cfg.roots = <<>> \/ cfg.top <= 0) =>
        /\ probes = <<>>
        /\ report = <<>>
        /\ pc # "start" => errors # <<>>

\* the results of scanning the roots of list rs, one after the other
RECURSIVE FoldersOfRoots(_)
FoldersOfRoots(rs) ==
    IF rs = <<>> THEN <<>>
    ELSE top_folders(du_list(Head(rs)), cfg.min_b, cfg.leaf, cfg.top)
         \o FoldersOfRoots(Tail(rs))

RECURSIVE FilesOfRoots(_)
FilesOfRoots(rs) ==
    IF rs = <<>> THEN <<>>
    ELSE find_big_files(DiskFiles(Head(rs)), cfg.min_file_gb, cfg.top) \o FilesOfRoots(Tail(rs))

RECURSIVE SamplesOfRoots(_)
SamplesOfRoots(rs) ==
    IF rs = <<>> THEN <<>>
    ELSE sample_files_for_types(DiskFiles(Head(rs)), cfg.filetype_min_mb) \o SamplesOfRoots(Tail(rs))

\* the requested roots for which the size probe yields something
GoodRoots ==
    LET Good(r) == du_list(r) # <<>>
    IN  SelectSeq(cfg.roots, Good)

\* C10: a root for which the size probe yields nothing contributes an empty
\* entry sequence and raises no error; every root of the request is probed,
\* and the folders, files and samples gathered are those of a scan of the
\* request without the bad roots.
C10_GracefulDegradation ==
    pc = "done" =>
        /\ errors = <<>>
        /\ LET IsDu(c) == c[1] = "du"
           IN  SelectSeq(probes, IsDu) = [k \in 1..Len(cfg.roots) |-> <<"du", cfg.roots[k]>>]
        /\ \A r \in Range(cfg.roots) :
              du_list(r) = <<>> => per_root_pairs[r] = <<>>
        /\ all_top_folders = FoldersOfRoots(GoodRoots)
        /\ all_top_files = (IF cfg.files THEN FilesOfRoots(GoodRoots) ELSE <<>>)
        /\ sampled_for_types = (IF cfg.charts THEN SamplesOfRoots(GoodRoots) ELSE <<>>)

\* a scan of a missing root followed by a good one ran to its end and
\* gathered the good root's folders and sampled files
C10_Witness ==
    /\ pc = "done"
    /\ cfg.roots = <<ROOT_M, ROOT_R>>
    /\ cfg.files /\ cfg.charts
    /\ cfg.top >= 1
    /\ per_root_pairs[ROOT_M] = <<>>
    /\ all_top_folders # <<>>
    /\ sampled_for_types # <<>>
    /\ report # <<>>

\* what the user has been shown of the result rows: the printed table on the
\* command line, the rows of the tree in the window
Presented == IF ui = "cli" THEN printed ELSE <<shown>>

\* the report could not be written
WriteFailed == pc \in {"crashed", "dialog", "failed"}

\* C11: when writing the report file fails after the scan, the failure is
\* surfaced as an error and the results gathered are still delivered: the
\* rows of every top folder and top file are shown, and, when the charts
\* are asked for, the root totals and the type histogram are computed.
C11_ResultsSurviveWriteFailure ==
    WriteFailed =>
        /\ errors # <<>>
        /\ Presented # <<>>
        /\ \A e \in Range(all_top_folders) \cup Range(all_top_files) :
              \E k \in 1..Len(Presented[1]) :
                  Presented[1][k][1] = e[1] /\ Presented[1][k][2] = e[2]
        /\ cfg.charts =>
              /\ root_totals = <<accumulate_root_totals(per_root_pairs)>>
              /\ sampled_for_types # <<>> =>
                    ext_totals = <<filetype_totals(sampled_for_types)>>

\* ------------------------------------------- find_big_files on its own

\* the k-th file of a tree
FindPath(k) == ROOT_R \o <<"/", "f">> \o [j \in 1..k |-> "x"]

\* sizes just below, at and just above one GiB
FindSizes == {GIB - 1, GIB, GIB + 1}

\* thresholds: the ints 0 and 1, and the float 1.0 both entry points pass
FindMins == {IntNum(0), IntNum(1), FloatNum(1)}

\* a tree of more files than one stat call takes; its heaviest file is the
\* last one find prints
ManyFiles ==
    [k \in 1..(CHUNK + 1) |->
        <<IF k = CHUNK + 1 THEN GIB + 1 ELSE GIB - (k % 2), FindPath(k)>>]

FindDisks ==
    {[k \in 1..Len(z) |-> <<z[k], FindPath(k)>>] : z \in SeqsUpTo(FindSizes, MaxEntries)}
    \cup {ManyFiles}

InitFind ==
    /\ step = "input"
    /\ entries \in FindDisks
    /\ min_size \in FindMins
    /\ top_n \in 1..MaxTop
    /\ out = <<>>
    /\ out2 = <<>>
    /\ sampled = <<>>
    /\ hist = <<>>
    /\ ScanUnused

\* out = find_big_files(root, min_gb, top) on the tree entries
FindBig ==
    /\ step = "input"
    /\ out' = find_big_files(entries, min_size, top_n)
    /\ step' = "found"
    /\ UNCHANGED <<entries, min_size, top_n, out2, sampled, hist, scanVars>>

\* out2 = sample_files_for_types(root, min_mb) on the same tree, with the
\* threshold read in MiB
FindSample ==
    /\ step = "found"
    /\ out2' = sample_files_for_types(entries, min_size)
    /\ step' = "sampled"
    /\ UNCHANGED <<entries, min_size, top_n, out, sampled, hist, scanVars>>

NextFind == FindBig \/ FindSample

SpecFind == InitFind /\ [][NextFind]_vars

\* C12: find_big_files returns at most top entries, each a file of the tree
\* of size >= min_gb, by descending size with ties in find's order; they
\* are the top heaviest files of size >= min_gb (a file of exactly min_gb
\* counts): as many as top allows, and no omitted one is larger than a
\* returned one; the result is that of a single stat over all the paths.
C12_TopNAtLeastMin ==
    step # "input" =>
        LET floor == min_size.n * GIB
            qual == {i \in 1..Len(entries) : entries[i][1] >= floor}
            Pos(e) == CHOOSE i \in 1..Len(entries) : entries[i] = e
            want == IF top_n < Cardinality(qual) THEN top_n ELSE Cardinality(qual)
        IN  /\ Len(out) <= top_n
            /\ \A k \in 1..Len(out) :
                  out[k] \in Range(entries) /\ out[k][1] >= floor
            /\ SizeDescending(out)
            /\ \A j, k \in 1..Len(out) :
                  (j < k /\ out[j][1] = out[k][1]) => Pos(out[j]) < Pos(out[k])
            /\ Len(out) = want
            /\ \A i \in qual :
                  entries[i] \notin Range(out) =>
                      \A k \in 1..Len(out) : entries[i][1] <= out[k][1]
            /\ out = TopSlice(BySizeDesc(StatGroup(entries,
                          FindStdout(entries, SizeArg(min_size, "G")))), top_n)

\* C13: leaf_only neither invents nor loses leaves: every returned entry is
\* an input entry, with no more copies than the input holds, and an input
\* entry is absent from the result only if its path is a proper ancestor, at
\* a separator boundary, of the path of a returned entry (so siblings whose
\* paths share a string prefix are both kept).
C13_NoInventedNoLostLeaf ==
    step \in {"reduced", "again"} =>
        /\ \A k \in 1..Len(out) :
              /\ out[k] \in Range(entries)
              /\ Count(out, out[k]) <= Count(entries, out[k])
        /\ \A i \in 1..Len(entries) :
              entries[i] \notin Range(out) =>
                  \E k \in 1..Len(out) : IsAncestor(entries[i][2], out[k][2])

\* --------------------------------------------------- claims about the window

\* C14: at most one scan thread is alive at any time, and on_run invoked
\* while a scan thread is alive starts no thread and leaves the results
\* table, the progress counters and the status as they are.
C14_OneScanThread ==
    [][/\ threads' <= 1
       /\ (GuiOnRun /\ thread_alive) =>
              /\ threads' = threads
              /\ UNCHANGED <<shown, total_steps, done_steps, bar, status,
                             thread_alive, pc, idx>>]_vars

\* a second scan, started by on_run after the first one ended, is under way:
\* on_run is enabled and a thread is alive
C14_Witness ==
    /\ ui = "gui"
    /\ thread_alive /\ threads = 1
    /\ report # <<>>
    /\ pc = "files"
    /\ shown # <<>>

\* ------------------------------- the two scan loops on the same probes

\* what a size probe of r may return: the entries of the tree, or nothing
\* (the directory is unreadable or has vanished by the time it is probed)
DuOutcomes(r) == {du_list(r), <<>>}

\* entries: the roots; top_n: the index of the next root; out: the
\* per_root_pairs of main; out2: the per_root_pairs of _run_scan; hist: the
\* two totals maps once computed
InitEquiv ==
    /\ step = "loop"
    /\ entries \in SeqsUpTo(RootNames, MaxRoots + 1)
    /\ min_size = 0
    /\ top_n = 1
    /\ out = EmptyDict
    /\ out2 = EmptyDict
    /\ sampled = <<>>
    /\ hist = <<>>
    /\ ScanUnused

\* one iteration of both loops on the same probe outcome:
\* per_root_pairs[root].extend(pairs) in main, per_root_pairs[root] =
\* pairs[:] in _run_scan
EquivScanRoot ==
    /\ step = "loop"
    /\ top_n <= Len(entries)
    /\ \E raw \in DuOutcomes(entries[top_n]) :
          /\ out' = DictExtend(out, entries[top_n], raw)
          /\ out2' = DictAssign(out2, entries[top_n], raw)
    /\ top_n' = top_n + 1
    /\ UNCHANGED <<step, entries, min_size, sampled, hist, scanVars>>

\* accumulate_root_totals(per_root_pairs) in both
EquivTotals ==
    /\ step = "loop"
    /\ top_n > Len(entries)
    /\ hist' = <<accumulate_root_totals(out), accumulate_root_totals(out2)>>
    /\ step' = "totals"
    /\ UNCHANGED <<entries, min_size, top_n, out, out2, sampled, scanVars>>

NextEquiv == EquivScanRoot \/ EquivTotals

SpecEquiv == InitEquiv /\ [][NextEquiv]_vars

\* C15: for every list of roots, repeated roots included, and every probe
\* outcome, the command line loop and the window's loop build the same
\* per-root raw entry map and the same root totals.
C15_SameMapSameTotals ==
    /\ out = out2
    /\ step = "totals" => hist[1] = hist[2]

\* ------------------------------------------------ the window, scheduled

\* a step of the scan thread
ScanThreadStep ==
    \/ GuiScanDu \/ GuiScanFiles \/ GuiScanTypes
    \/ GuiWriteReport \/ GuiWriteFails \/ GuiCharts \/ GuiErrorDismissed

\* The scan thread is a daemon thread the interpreter keeps scheduling, its
\* probes return and the error box is dismissed: weak fairness of its steps.
\* A step of the thread is possible exactly while the thread is alive, so
\* WF_vars(ScanThreadStep) is written out with thread_alive in the place of
\* ENABLED <<ScanThreadStep>>_vars.
\* _poll_thread is a Tk timer callback: once armed it runs, so it is weakly
\* fair; nothing makes it run in the interval between the end of a thread
\* and the next on_run.
SpecScanFair ==
    /\ SpecScan
    /\ ([]<>(~thread_alive) \/ []<><<ScanThreadStep>>_vars)
    /\ WF_vars(GuiPoll)

\* C16 (as stated): every scan that is started returns the window to idle: a
\* live scan thread leads to the Run button enabled again, once the thread
\* has ended (normally or through the except clause) the poll enables the
\* button, and the button is never enabled while a scan thread is alive.
C16_BackToIdle ==
    /\ (thread_alive ~> ~busy)
    /\ ((busy /\ ~thread_alive) ~> ~busy)
    /\ [][(busy /\ ~busy') => (~thread_alive /\ ~thread_alive')]_vars

\* C16 (amended): every scan thread that is started ends, and once it has
\* ended (normally or through the except clause) the poll enables the Run
\* button again unless on_run, which the Return key reaches while the button
\* is disabled, has started another scan first; the button is never enabled
\* while a scan thread is alive.
C16_BackToIdleUnlessRestarted ==
    /\ (thread_alive ~> ~thread_alive)
    /\ ((busy /\ ~thread_alive) ~> (~busy \/ thread_alive))
    /\ [][(busy /\ ~busy') => (~thread_alive /\ ~thread_alive')]_vars

\* the write of the report raised, the error box was dismissed, and the poll
\* has enabled the Run button again
C16_Witness ==
    /\ ui = "gui"
    /\ pc = "failed"
    /\ status = "Error"
    /\ ~thread_alive
    /\ ~busy /\ ~poll_armed

\* the percentage the label shows for the counters
Shown(done, total) == Percent(done, IF total < 1 THEN 1 ELSE total)

\* 1 + include_files + charts
Phases == 1 + (IF cfg.files THEN 1 ELSE 0) + (IF cfg.charts THEN 1 ELSE 0)

\* a scan over a non-empty list of roots that ended without an exception has
\* counted every step
CompletedInFull ==
    (ui = "gui" /\ pc = "done" /\ cfg.roots # <<>>) =>
        /\ done_steps = total_steps
        /\ total_steps = Len(cfg.roots) * Phases
        /\ Percent(done_steps, total_steps) = 100
        /\ bar = 100

\* while a scan thread is alive the percentage does not decrease
NeverDecreases ==
    (thread_alive /\ total_steps >= 1 /\ total_steps' >= 1) =>
        Percent(done_steps', total_steps') >= Percent(done_steps, total_steps)

\* C17 (as stated): in every reachable state of the window 0 <= _done_steps
\* <= _total_steps and _total_steps >= 1, so the percentage is within 0..100
\* and never decreases during a scan; a scan over a non-empty roots list
\* that completes without an exception ends with _done_steps = _total_steps
\* = len(roots) * (1 + includeFiles + charts), i.e. at 100%.
C17_ProgressAlways ==
    /\ [](ui = "gui" =>
            /\ total_steps >= 1
            /\ 0 <= done_steps /\ done_steps <= total_steps
            /\ Percent(done_steps, total_steps) \in 0..100
            /\ CompletedInFull)
    /\ [][NeverDecreases]_vars

\* C17 (amended): 0 <= _done_steps <= _total_steps always; _total_steps is 0
\* from the construction of the window until the first scan is started and
\* at least 1 from then on, so the percentage shown (computed over max(1,
\* _total_steps)) is within 0..100 and never decreases during a scan, and
\* the bar shows that percentage from the first step of a scan on; a scan over
\* a non-empty roots list that completes without an exception ends with
\* _done_steps = _total_steps = len(roots) * (1 + includeFiles + charts),
\* i.e. at 100%.
C17_ProgressOnceStarted ==
    /\ [](ui = "gui" =>
            /\ 0 <= done_steps /\ done_steps <= total_steps
            /\ (pc = "start") = (total_steps = 0)
            /\ Shown(done_steps, total_steps) \in 0..100
            /\ bar \in 0..100
            /\ done_steps >= 1 => bar = Percent(done_steps, total_steps)
            /\ CompletedInFull)
    /\ [][NeverDecreases]_vars

\* a scan of two roots with files and charts has counted its six steps
C17_Witness ==
    /\ ui = "gui"
    /\ pc = "done"
    /\ Len(cfg.roots) = 2 /\ cfg.files /\ cfg.charts
    /\ done_steps = 6 /\ total_steps = 6
    /\ bar = 100

====
